---------------------------- MODULE Spec2Model ----------------------------
(***************************************************************************)
(* Model of caption_stack.py: merge_screenshots_with_subtitles.            *)
(*                                                                         *)
(* The input folder is a map from file names to file contents.  A file     *)
(* name is the sequence of its code points, so that str.lower, str.endswith *)
(* and list.sort are modelled by what they do on the characters.           *)
(* A decoded image is a record [w, h, bm, trunc]: its size, its bitmap and  *)
(* whether its pixel data is truncated on disk (Image.open reads only the   *)
(* header; the pixel data is decoded by the first resize, crop or paste).   *)
(* A pixel is a record naming the bitmap and the position it comes from,   *)
(* the white canvas fill, or the zero fill that Image.crop produces for    *)
(* the part of a crop box lying outside the image.                         *)
(***************************************************************************)
EXTENDS Integers, Sequences, FiniteSets

VARIABLES
    dir,              \* input_folder: file name -> file content
    elsewhere,        \* the file at output_path when it lies outside input_folder
    output_path,      \* [inside, name]: where the result is saved
    subtitle_ratio,   \* [num, den]: the positive number num/den
    pc,               \* position in merge_screenshots_with_subtitles
    listing,          \* history: image_files as line 20 built it, before the sort
    image_files,      \* line 20-21
    images,           \* line 27
    resized_images,   \* line 33-43
    target_width,     \* line 30
    subtitle_height,  \* line 46
    total_height,     \* line 50
    new_image,        \* line 53: the canvas
    i,                \* line 59: loop index of the band being pasted
    error,            \* the exception that ended the call, or "none"
    run,              \* number of the current call
    steps,            \* history: the steps the current call has performed
    ops,              \* history: crop box and paste box of every paste of the call
    wrote,            \* history: writes to output_path during the current call
    out_before,       \* history: the file at output_path when the call started
    outputs           \* history: the result of every finished call

vars == <<dir, elsewhere, output_path, subtitle_ratio, pc, listing, image_files,
          images, resized_images, target_width, subtitle_height, total_height,
          new_image, i, error, run, steps, ops, wrote, out_before, outputs>>

----------------------------------------------------------------------------
(* Bounds of the model. *)

MaxW == 3

MaxH == 4

MaxRuns == 2

----------------------------------------------------------------------------
(* File names. *)

\* "B.PNG", "a.png", "b.Png": names that qualify, in a case mix whose code
\* point order differs from their case-insensitive order.
NameBUpper == <<66, 46, 80, 78, 71>>

NameA == <<97, 46, 112, 110, 103>>

NameBMixed == <<98, 46, 80, 110, 103>>

\* "o.png": the name of an output saved into the input folder.
NameOut == <<111, 46, 112, 110, 103>>

\* "a.txt" and "png": names that do not qualify.
NameTxt == <<97, 46, 116, 120, 116>>

NameNoDot == <<112, 110, 103>>

InputNames == {NameBUpper, NameA, NameBMixed}

OtherNames == {NameTxt, NameNoDot}

\* str.lower on one code point (ASCII letters only occur).
LowerChar(c) == IF c >= 65 /\ c <= 90 THEN c + 32 ELSE c

Lower(s) == [k \in 1..Len(s) |-> LowerChar(s[k])]

\* '.png'
Extension == <<46, 112, 110, 103>>

EndsWith(s, suffix) ==
    /\ Len(s) >= Len(suffix)
    /\ SubSeq(s, Len(s) - Len(suffix) + 1, Len(s)) = suffix

\* f.lower().endswith('.png')
IsPng(f) == EndsWith(Lower(f), Extension)

\* Python's str < str: code point by code point, a proper prefix is smaller.
RECURSIVE StrLess(_, _)
StrLess(a, b) ==
    IF b = <<>> THEN FALSE
    ELSE IF a = <<>> THEN TRUE
    ELSE IF a[1] # b[1] THEN a[1] < b[1]
    ELSE StrLess(Tail(a), Tail(b))

RECURSIVE Insert(_, _)
Insert(x, sorted) ==
    IF sorted = <<>> THEN <<x>>
    ELSE IF StrLess(x, sorted[1]) THEN <<x>> \o sorted
    ELSE <<sorted[1]>> \o Insert(x, Tail(sorted))

RECURSIVE InsertionSort(_)
InsertionSort(s) ==
    IF s = <<>> THEN <<>> ELSE Insert(s[1], InsertionSort(Tail(s)))

\* Seeded fault: the listing taken as it comes.
SortedNoSort(s) == s

\* image_files.sort()
Sorted(s) == InsertionSort(s)

\* All orders in which os.listdir may return a set of names.
RECURSIVE Orders(_)
Orders(S) ==
    IF S = {} THEN {<<>>}
    ELSE UNION {{<<x>> \o p : p \in Orders(S \ {x})} : x \in S}

\* [f for f in os.listdir(input_folder) if f.lower().endswith('.png')], as a set.
Qualifying(d) == {f \in DOMAIN d : IsPng(f)}

----------------------------------------------------------------------------
(* Pixels, bitmaps, images. *)

White == [kind |-> "white"]

Zero == [kind |-> "zero"]

NoImage == [w |-> 0, h |-> 0, rows |-> <<>>]

SrcBitmap(name) == [kind |-> "src", name |-> name]

\* The pixel at row r, column c (from 0) of an image.
PixelAt(img, r, c) ==
    IF img.bm.kind = "mat" THEN img.bm.rows[r][c]
    ELSE [kind |-> "px", bm |-> img.bm, r |-> r, c |-> c]

\* Image.open(path) of a decodable file: size from the header, data not yet read.
Opened(file) == [w |-> file.w, h |-> file.h, bm |-> file.bm, trunc |-> file.trunc]

\* The file that new_image.save writes: a complete PNG holding the canvas.
CanvasFile(canvas) ==
    [kind |-> "png", w |-> canvas.w, h |-> canvas.h, trunc |-> FALSE,
     bm |-> [kind |-> "mat", rows |-> canvas.rows]]

Garbage == [kind |-> "garbage"]

NoFile == [kind |-> "absent"]

----------------------------------------------------------------------------
(* The arithmetic and the image operations of the routine. *)

\* target_width = images[0].size[0]
TargetWidth(imgs) == imgs[1].w

\* Seeded fault: the new height rounded to the nearest integer.
NewHeightRounded(h, w, tw) == (2 * h * tw + w) \div (2 * w)

\* ratio = target_width / img.size[0]; new_height = int(img.size[1] * ratio).
\* int() truncates; the product is not negative, so it is the floor.  For the
\* sizes of this model the double product h * (tw / w) truncates to the same
\* integer as the exact quotient.
NewHeight(h, w, tw) == (h * tw) \div w

\* img.resize((target_width, new_height), LANCZOS) of a decoded image.
Resized(img, tw, nh) ==
    [w |-> tw, h |-> nh, trunc |-> FALSE,
     bm |-> [kind |-> "lanczos", of |-> img.bm, w0 |-> img.w, h0 |-> img.h]]

\* Seeded fault: every image whose height differs from the target is resampled.
NeedsResizeByHeight(img, tw) == img.h # tw

\* if img.size[0] != target_width
NeedsResize(img, tw) == img.w # tw

\* One round of the loop of lines 34-43 on img; "err" is the exception raised.
\* resize decodes the pixel data first and rejects a size with a zero side.
NormalizeOne(img, tw) ==
    IF ~NeedsResize(img, tw) THEN [err |-> "none", img |-> img]
    ELSE IF img.trunc THEN [err |-> "OSError:truncated", img |-> img]
    ELSE IF NewHeight(img.h, img.w, tw) < 1 THEN [err |-> "ValueError:resize", img |-> img]
    ELSE [err |-> "none", img |-> Resized(img, tw, NewHeight(img.h, img.w, tw))]

\* Lines 33-43: the list built so far (done) and the images still to visit.
RECURSIVE NormalizeFrom(_, _, _)
NormalizeFrom(done, rest, tw) ==
    IF rest = <<>> THEN [err |-> "none", imgs |-> done]
    ELSE LET one == NormalizeOne(rest[1], tw)
         IN  IF one.err # "none" THEN [err |-> one.err, imgs |-> done]
             ELSE NormalizeFrom(Append(done, one.img), Tail(rest), tw)

\* resized_images = [images[0]], then the loop over images[1:].
Normalize(imgs, tw) == NormalizeFrom(<<imgs[1]>>, Tail(imgs), tw)

\* Seeded fault: the band height rounded up.
SubtitleHeightCeil(h, ratio) == (h * ratio.den + ratio.num - 1) \div ratio.num

\* subtitle_height = int(resized_images[0].size[1] / subtitle_ratio)
SubtitleHeight(h, ratio) == (h * ratio.den) \div ratio.num

\* total_height = first height + subtitle_height * (len(resized_images) - 1)
TotalHeight(h, sh, n) == h + sh * (n - 1)

\* Image.new('RGB', (target_width, total_height), 'white')
NewCanvas(w, h) ==
    [w |-> w, h |-> h, rows |-> [r \in 0..(h - 1) |-> [c \in 0..(w - 1) |-> White]]]

\* Seeded fault: the band offset counted from k instead of k - 1.
YPositionOffByOne(h, sh, k) == h + sh * k

\* y_position = resized_images[0].size[1] + subtitle_height * (i - 1)
YPosition(h, sh, k) == h + sh * (k - 1)

\* Seeded fault: the band taken from the top of the image.
CropBoxTop(img, sh, tw) == [left |-> 0, top |-> 0, right |-> tw, bottom |-> sh]

\* The box of line 64-69: (0, height - subtitle_height, target_width, height).
CropBox(img, sh, tw) ==
    [left |-> 0, top |-> img.h - sh, right |-> tw, bottom |-> img.h]

\* img.crop(box): an image of the size of the box; what lies outside img is zero.
Crop(img, box) ==
    [w |-> box.right - box.left, h |-> box.bottom - box.top, trunc |-> FALSE,
     bm |-> [kind |-> "mat",
             rows |-> [r \in 0..(box.bottom - box.top - 1) |->
                        [c \in 0..(box.right - box.left - 1) |->
                          IF /\ box.top + r >= 0 /\ box.top + r < img.h
                             /\ box.left + c >= 0 /\ box.left + c < img.w
                          THEN PixelAt(img, box.top + r, box.left + c)
                          ELSE Zero]]]]

\* The region canvas.paste(img, (x, y)) writes, before clipping to the canvas.
PasteBox(img, x, y) ==
    [left |-> x, top |-> y, right |-> x + img.w, bottom |-> y + img.h]

\* canvas.paste(img, (x, y)): the pixels of img replace those of the canvas
\* inside the paste box; what falls outside the canvas is dropped.
Paste(canvas, img, x, y) ==
    [canvas EXCEPT !.rows =
        [r \in 0..(canvas.h - 1) |-> [c \in 0..(canvas.w - 1) |->
            IF r >= y /\ r < y + img.h /\ c >= x /\ c < x + img.w
            THEN PixelAt(img, r - y, c - x)
            ELSE canvas.rows[r][c]]]]

----------------------------------------------------------------------------
(* The state the routine starts from. *)

Ratios == {[num |-> 1, den |-> 1], [num |-> 2, den |-> 1], [num |-> 7, den |-> 2]}

OutputPaths ==
    {[inside |-> FALSE, name |-> NameOut],
     [inside |-> TRUE, name |-> NameOut],
     [inside |-> TRUE, name |-> NameTxt]}

\* What an input name may hold: nothing, bytes that are no image, a PNG whose
\* pixel data is cut short, or a complete PNG of any size within the bounds.
Choices ==
    {[kind |-> "absent"], [kind |-> "garbage"], [kind |-> "truncated"]}
    \cup {[kind |-> "png", w |-> w, h |-> h] : w \in 1..MaxW, h \in 1..MaxH}

FileOf(name, choice) ==
    IF choice.kind = "garbage" THEN Garbage
    ELSE IF choice.kind = "truncated"
         THEN [kind |-> "png", w |-> 1, h |-> 1, trunc |-> TRUE, bm |-> SrcBitmap(name)]
    ELSE [kind |-> "png", w |-> choice.w, h |-> choice.h, trunc |-> FALSE,
          bm |-> SrcBitmap(name)]

\* The file at output_path in a given file system.
FileAt(path, d, e) ==
    IF path.inside THEN (IF path.name \in DOMAIN d THEN d[path.name] ELSE NoFile) ELSE e

OutputFile == FileAt(output_path, dir, elsewhere)

\* The local variables of a call that has not started.
Fresh ==
    /\ pc = "discover"
    /\ listing = <<>>
    /\ image_files = <<>>
    /\ images = <<>>
    /\ resized_images = <<>>
    /\ target_width = 0
    /\ subtitle_height = 0
    /\ total_height = 0
    /\ new_image = NoImage
    /\ i = 0
    /\ error = "none"
    /\ steps = <<>>
    /\ ops = <<>>
    /\ wrote = 0

\* The folder in which every input name holds what ch chooses for it.
Folder(ch) ==
    [n \in {m \in InputNames : ch[m].kind # "absent"} \cup OtherNames |->
        IF n \in OtherNames THEN Garbage ELSE FileOf(n, ch[n])]

\* One call, on any folder, saving outside the folder.
Init ==
    /\ \E ch \in [InputNames -> Choices] : dir = Folder(ch)
    /\ elsewhere = NoFile
    /\ output_path = [inside |-> FALSE, name |-> NameOut]
    /\ subtitle_ratio \in Ratios
    /\ run = 1
    /\ outputs = <<>>
    /\ out_before = FileAt(output_path, dir, elsewhere)
    /\ Fresh

\* Repeated calls, on a folder of at most two input files, saving anywhere.
InitTwice ==
    /\ \E ch \in [InputNames -> Choices] :
         /\ ch[NameBMixed].kind = "absent"
         /\ dir = Folder(ch)
    /\ elsewhere = NoFile
    /\ output_path \in OutputPaths
    /\ subtitle_ratio \in Ratios
    /\ run = 1
    /\ outputs = <<>>
    /\ out_before = FileAt(output_path, dir, elsewhere)
    /\ Fresh

----------------------------------------------------------------------------
(* The steps of merge_screenshots_with_subtitles. *)

inputs == <<dir, elsewhere, output_path, subtitle_ratio, run, out_before>>

Fail(exc) ==
    /\ pc' = "failed"
    /\ error' = exc
    /\ outputs' = Append(outputs, [ok |-> FALSE, error |-> exc])

\* Lines 20-21: os.listdir returns the names in whatever order; the filter keeps
\* that order, and image_files.sort() sorts the list in place.
Discover ==
    /\ pc = "discover"
    /\ \E order \in Orders(Qualifying(dir)) :
         /\ listing' = order
         /\ image_files' = Sorted(order)
    /\ pc' = "validate"
    /\ steps' = Append(steps, [step |-> "discover", k |-> 0])
    /\ UNCHANGED <<inputs, images, resized_images, target_width, subtitle_height,
                   total_height, new_image, i, error, ops, wrote, outputs>>

\* Seeded fault: a single image is accepted.
TooFewOffByOne(files) == Len(files) < 1

\* if len(image_files) < 2
TooFew(files) == Len(files) < 2

\* Lines 23-24.
Validate ==
    /\ pc = "validate"
    /\ steps' = Append(steps, [step |-> "validate", k |-> 0])
    /\ listing' = <<>>
    /\ IF TooFew(image_files)
       THEN Fail("ValueError:too_few")
       ELSE pc' = "load" /\ UNCHANGED <<error, outputs>>
    /\ UNCHANGED <<inputs, image_files, images, resized_images, target_width,
                   subtitle_height, total_height, new_image, i, ops, wrote>>

\* Line 27: Image.open of every file, in the order of image_files; the first
\* file that is no image ends the call.
Load ==
    /\ pc = "load"
    /\ steps' = Append(steps, [step |-> "load", k |-> 0])
    /\ IF \E k \in 1..Len(image_files) : dir[image_files[k]].kind = "garbage"
       THEN Fail("UnidentifiedImageError") /\ UNCHANGED images
       ELSE /\ images' = [k \in 1..Len(image_files) |-> Opened(dir[image_files[k]])]
            /\ pc' = "normalize"
            /\ UNCHANGED <<error, outputs>>
    /\ UNCHANGED <<inputs, listing, image_files, resized_images, target_width,
                   subtitle_height, total_height, new_image, i, ops, wrote>>

\* Lines 30-43.
NormalizeWidths ==
    /\ pc = "normalize"
    /\ steps' = Append(steps, [step |-> "normalize", k |-> 0])
    /\ target_width' = TargetWidth(images)
    /\ LET res == Normalize(images, TargetWidth(images))
       IN  /\ resized_images' = res.imgs
           /\ IF res.err # "none"
              THEN Fail(res.err)
              ELSE pc' = "allocate" /\ UNCHANGED <<error, outputs>>
    /\ UNCHANGED <<inputs, listing, image_files, images, subtitle_height,
                   total_height, new_image, i, ops, wrote>>

\* Lines 46-53.
Allocate ==
    /\ pc = "allocate"
    /\ steps' = Append(steps, [step |-> "allocate", k |-> 0])
    /\ subtitle_height' = SubtitleHeight(resized_images[1].h, subtitle_ratio)
    /\ total_height' = TotalHeight(resized_images[1].h,
                                   SubtitleHeight(resized_images[1].h, subtitle_ratio),
                                   Len(resized_images))
    /\ new_image' = NewCanvas(target_width, total_height')
    /\ pc' = "paste_first"
    /\ UNCHANGED <<inputs, listing, image_files, images, resized_images,
                   target_width, i, error, ops, wrote, outputs>>

\* Line 56: paste decodes the pixel data of the first image.
PasteFirst ==
    /\ pc = "paste_first"
    /\ steps' = Append(steps, [step |-> "paste_first", k |-> 0])
    /\ IF resized_images[1].trunc
       THEN Fail("OSError:truncated") /\ UNCHANGED <<new_image, ops, i>>
       ELSE /\ new_image' = Paste(new_image, resized_images[1], 0, 0)
            /\ ops' = Append(ops, [crop |-> [left |-> 0, top |-> 0,
                                             right |-> resized_images[1].w,
                                             bottom |-> resized_images[1].h],
                                   paste |-> PasteBox(resized_images[1], 0, 0)])
            /\ i' = 1
            /\ pc' = "bands"
            /\ UNCHANGED <<error, outputs>>
    /\ UNCHANGED <<inputs, listing, image_files, images, resized_images,
                   target_width, subtitle_height, total_height, wrote>>

\* Seeded fault: the loop over the bands ends one image early.
BandsLeftButLast(k, imgs) == k < Len(imgs) - 1

\* for i, img in enumerate(resized_images[1:], 1): is there an i-th band?
BandsLeft(k, imgs) == k <= Len(imgs) - 1

\* Lines 59-72, one round: crop decodes the pixel data of the image.
PasteBand ==
    /\ pc = "bands"
    /\ BandsLeft(i, resized_images)
    /\ steps' = Append(steps, [step |-> "band", k |-> i])
    /\ LET img == resized_images[i + 1]
           box == CropBox(img, subtitle_height, target_width)
           y_position == YPosition(resized_images[1].h, subtitle_height, i)
       IN  IF img.trunc
           THEN Fail("OSError:truncated") /\ UNCHANGED <<new_image, ops, i>>
           ELSE /\ new_image' = Paste(new_image, Crop(img, box), 0, y_position)
                /\ ops' = Append(ops, [crop |-> box,
                                       paste |-> PasteBox(Crop(img, box), 0, y_position)])
                /\ i' = i + 1
                /\ UNCHANGED <<pc, error, outputs>>
    /\ UNCHANGED <<inputs, listing, image_files, images, resized_images,
                   target_width, subtitle_height, total_height, wrote>>

\* Line 75: new_image.save(output_path, 'PNG').
Save ==
    /\ pc = "bands"
    /\ ~BandsLeft(i, resized_images)
    /\ steps' = Append(steps, [step |-> "save", k |-> 0])
    /\ IF output_path.inside
       THEN /\ dir' = [n \in DOMAIN dir \cup {output_path.name} |->
                         IF n = output_path.name THEN CanvasFile(new_image) ELSE dir[n]]
            /\ UNCHANGED elsewhere
       ELSE /\ elsewhere' = CanvasFile(new_image)
            /\ UNCHANGED dir
    /\ wrote' = wrote + 1
    /\ outputs' = Append(outputs, [ok |-> TRUE, image |-> new_image])
    /\ pc' = "done"
    /\ UNCHANGED <<output_path, subtitle_ratio, run, out_before, listing, image_files,
                   images, resized_images, target_width, subtitle_height,
                   total_height, new_image, i, error, ops>>

\* The routine is called again with the same arguments.
CallAgain ==
    /\ pc \in {"done", "failed"}
    /\ run < MaxRuns
    /\ run' = run + 1
    /\ out_before' = OutputFile
    /\ pc' = "discover"
    /\ listing' = <<>>
    /\ image_files' = <<>>
    /\ images' = <<>>
    /\ resized_images' = <<>>
    /\ target_width' = 0
    /\ subtitle_height' = 0
    /\ total_height' = 0
    /\ new_image' = NoImage
    /\ i' = 0
    /\ error' = "none"
    /\ steps' = <<>>
    /\ ops' = <<>>
    /\ wrote' = 0
    /\ UNCHANGED <<dir, elsewhere, output_path, subtitle_ratio, outputs>>

Step ==
    \/ Discover
    \/ Validate
    \/ Load
    \/ NormalizeWidths
    \/ Allocate
    \/ PasteFirst
    \/ PasteBand
    \/ Save

Next ==
    \/ Step
    \/ CallAgain

\* A single call of the routine.
Spec == Init /\ [][Step]_vars

\* The routine called up to MaxRuns times in succession.
SpecTwice == InitTwice /\ [][Next]_vars

----------------------------------------------------------------------------
(* What the properties below are stated with, none of it part of the routine. *)

\* A name ending, in any mix of cases, with ".png".
HasImageExtension(f) ==
    /\ Len(f) >= 4
    /\ f[Len(f) - 3] = 46
    /\ f[Len(f) - 2] \in {112, 80}
    /\ f[Len(f) - 1] \in {110, 78}
    /\ f[Len(f)] \in {103, 71}

ImageNames == {f \in DOMAIN dir : HasImageExtension(f)}

\* The k-th image name in ascending order: exactly k - 1 image names are smaller.
KthName(k) ==
    CHOOSE f \in ImageNames : Cardinality({g \in ImageNames : StrLess(g, f)}) = k - 1

\* floor(a / b) for a >= 0, b > 0, by its defining inequality.
FloorQuot(a, b) == CHOOSE q \in 0..a : q * b <= a /\ a < (q + 1) * b

\* a / b rounded to the nearest integer, halves upwards.
RoundQuot(a, b) == CHOOSE q \in 0..(a + 1) : 2 * q * b <= 2 * a + b /\ 2 * a + b < 2 * (q + 1) * b

Normalized == pc \in {"allocate", "paste_first", "bands", "done"}

N == Len(resized_images)

FirstHeight == resized_images[1].h

\* The canvas rows of region k: the first image (k = 1) or band k - 1.
RegionTop(k) == IF k = 1 THEN 0 ELSE FirstHeight + subtitle_height * (k - 2)

RegionBottom(k) == IF k = 1 THEN FirstHeight ELSE FirstHeight + subtitle_height * (k - 1)

\* The file a pixel was decoded or resampled from.
Origin(px) == IF px.bm.kind = "src" THEN px.bm.name ELSE px.bm.of.name

----------------------------------------------------------------------------
(* C1: a folder with fewer than two image names makes the call fail with the  *)
(* too-few-images error before any image is opened, and nothing is written to *)
(* the output path.                                                           *)
C1_TooFewImagesFail ==
    (Cardinality(ImageNames) < 2 /\ pc # "discover" /\ pc # "validate")
        => /\ pc = "failed"
           /\ error = "ValueError:too_few"
           /\ images = <<>>
           /\ wrote = 0
           /\ OutputFile = NoFile

C1_Witness ==
    /\ Cardinality(ImageNames) = 1
    /\ pc = "failed"
    /\ error = "ValueError:too_few"
    /\ OutputFile = NoFile

(* C2: the saved canvas is as wide as the first image in sorted name order    *)
(* and firstHeight + floor(firstHeight / ratio) * (N - 1) high, whatever the  *)
(* sizes of the other images.                                                 *)
C2_CanvasSize ==
    pc = "done" =>
        LET first == dir[KthName(1)]
            n == Cardinality(ImageNames)
            sh == FloorQuot(first.h * subtitle_ratio.den, subtitle_ratio.num)
        IN  /\ OutputFile.kind = "png"
            /\ OutputFile.w = first.w
            /\ OutputFile.h = first.h + sh * (n - 1)
            /\ subtitle_height = sh

C2_Witness ==
    /\ pc = "done"
    /\ Cardinality(ImageNames) = 3
    /\ subtitle_height > 0
    /\ (dir[KthName(1)].h * subtitle_ratio.den) % subtitle_ratio.num # 0
    /\ dir[KthName(2)].h # dir[KthName(1)].h
    /\ dir[KthName(3)].w # dir[KthName(1)].w
    /\ OutputFile.h = dir[KthName(1)].h + 2 * subtitle_height

(* C3: when every later normalized image is at least subtitle_height high,    *)
(* the canvas rows [0, firstHeight) hold the first image and the rows of band *)
(* p hold the bottom subtitle_height rows of the p-th later normalized image, *)
(* over the whole width; this stays so while the later bands are pasted.      *)
C3_BandsOnlyTall == \A k \in 2..N : resized_images[k].h >= subtitle_height

C3_RegionsHoldImages ==
    (pc \in {"bands", "done"} /\ C3_BandsOnlyTall) =>
        /\ \A r \in 0..(FirstHeight - 1), c \in 0..(target_width - 1) :
             new_image.rows[r][c] = PixelAt(resized_images[1], r, c)
        /\ \A p \in 1..(i - 1) :
             \A r \in 0..(subtitle_height - 1), c \in 0..(target_width - 1) :
                new_image.rows[FirstHeight + subtitle_height * (p - 1) + r][c]
                  = PixelAt(resized_images[p + 1],
                            resized_images[p + 1].h - subtitle_height + r, c)

C3_Witness ==
    /\ pc = "done"
    /\ N = 3
    /\ i = 3
    /\ subtitle_height > 0
    /\ C3_BandsOnlyTall
    /\ resized_images[2].h > subtitle_height
    /\ resized_images[3].h > subtitle_height

(* C4, as stated: every later image whose width differs from the target width *)
(* is normalized to the target width and to the height                        *)
(* round(originalHeight * targetWidth / originalWidth).                       *)
C4_HeightRounded ==
    Normalized =>
        \A k \in 2..N :
            images[k].w # target_width =>
                /\ resized_images[k].w = target_width
                /\ resized_images[k].h = RoundQuot(images[k].h * target_width, images[k].w)

(* C4, amended: such an image is normalized to the target width and to the    *)
(* height floor(originalHeight * targetWidth / originalWidth), the product    *)
(* truncated, which is at least 1; when the truncated height is 0 the call    *)
(* fails in the resize instead.                                               *)
C4_HeightTruncated ==
    /\ Normalized =>
        \A k \in 2..N :
            images[k].w # target_width =>
                /\ resized_images[k].w = target_width
                /\ resized_images[k].h = FloorQuot(images[k].h * target_width, images[k].w)
                /\ resized_images[k].h >= 1
    /\ (pc = "failed" /\ error = "ValueError:resize") =>
        LET k == Len(resized_images) + 1
        IN  /\ images[k].w # target_width
            /\ FloorQuot(images[k].h * target_width, images[k].w) = 0

C4_Witness ==
    /\ Normalized
    /\ \E k \in 2..N :
         /\ images[k].w # target_width
         /\ 2 * ((images[k].h * target_width) % images[k].w) >= images[k].w
         /\ resized_images[k].h = FloorQuot(images[k].h * target_width, images[k].w)

(* C5: no crop is ever applied with a negative top coordinate: an image lower *)
(* than subtitle_height is either cropped within its bounds or rejected.      *)
C5_CropTopNotNegative == \A k \in 1..Len(ops) : ops[k].crop.top >= 0

(* C6: the stacking order is the ascending order of the image names and       *)
(* nothing else: whatever order the listing came in, image_files is the       *)
(* ascending sequence of the image names, the k-th opened image is the file   *)
(* of the k-th name, and every pixel of the k-th canvas region that comes     *)
(* from a file comes from that file.                                          *)
C6_OrderByNameOnly ==
    /\ pc # "discover" =>
        /\ Len(image_files) = Cardinality(ImageNames)
        /\ \A k \in 1..Len(image_files) : image_files[k] = KthName(k)
    /\ images # <<>> =>
        \A k \in 1..Len(images) : images[k] = Opened(dir[KthName(k)])
    /\ pc = "done" =>
        \A k \in 1..N :
            \A r \in RegionTop(k)..(RegionBottom(k) - 1), c \in 0..(target_width - 1) :
                new_image.rows[r][c].kind = "px"
                    => Origin(new_image.rows[r][c]) = KthName(k)

C6_Witness ==
    /\ pc = "validate"
    /\ Len(listing) = 3
    /\ listing[1] = KthName(3)
    /\ listing[2] = KthName(1)
    /\ image_files = <<KthName(1), KthName(2), KthName(3)>>

(* C7, as stated: for every output path, two calls in succession with the     *)
(* same arguments produce the same image.                                     *)
C7_SameOutputTwice ==
    (Len(outputs) >= 2 /\ outputs[1].ok) => outputs[2] = outputs[1]

(* C7, amended: two calls in succession with the same arguments produce the   *)
(* same image, or fail alike, provided the output path is not an image name   *)
(* in the input folder; a first call that saves such a file changes the       *)
(* folder the second call reads.                                              *)
C7_SameOutputTwiceOutsideInputs ==
    (Len(outputs) >= 2 /\ ~(output_path.inside /\ HasImageExtension(output_path.name)))
        => outputs[2] = outputs[1]

C7_Witness ==
    /\ Len(outputs) = 2
    /\ outputs[1].ok
    /\ outputs[2] = outputs[1]
    /\ output_path.inside
    /\ ~HasImageExtension(output_path.name)
    /\ outputs[1].image.h > dir[KthName(1)].h

(* C8: normalization keeps the number and order of the images, leaves the     *)
(* first image and every image of the target width as they were opened, and   *)
(* resamples exactly the images of another width.                             *)
C8_OnlyOtherWidthsResampled ==
    Normalized =>
        /\ Len(resized_images) = Len(images)
        /\ resized_images[1] = images[1]
        /\ \A k \in 2..Len(images) :
             IF images[k].w = images[1].w
             THEN resized_images[k] = images[k]
             ELSE /\ resized_images[k].bm.kind = "lanczos"
                  /\ resized_images[k].bm.of = images[k].bm
                  /\ resized_images[k].w = images[1].w

C8_Witness ==
    /\ Normalized
    /\ Len(images) = 3
    /\ images[2].w = images[1].w
    /\ images[2].h # images[1].w
    /\ images[3].w # images[1].w
    /\ resized_images[2] = images[2]
    /\ resized_images[3].bm.kind = "lanczos"

(* C9: the steps of a call come in the order discovery, validation, load,     *)
(* normalization, allocation, paste of the first image, bands 1..N-1, save;   *)
(* the output path is written at most once, by the save that follows the last *)
(* band, and a call that fails has written nothing.                           *)
C9_FullOrder ==
    <<[step |-> "discover", k |-> 0], [step |-> "validate", k |-> 0],
      [step |-> "load", k |-> 0], [step |-> "normalize", k |-> 0],
      [step |-> "allocate", k |-> 0], [step |-> "paste_first", k |-> 0]>>
    \o [k \in 1..(Cardinality(ImageNames) - 1) |-> [step |-> "band", k |-> k]]
    \o <<[step |-> "save", k |-> 0]>>

C9_SaveLastAndOnce ==
    /\ Len(steps) <= Len(C9_FullOrder)
    /\ steps = SubSeq(C9_FullOrder, 1, Len(steps))
    /\ wrote <= 1
    /\ wrote = 1 <=> pc = "done"
    /\ pc = "done" => (steps = C9_FullOrder /\ Len(ops) = Cardinality(ImageNames))
    /\ pc = "failed" => (wrote = 0 /\ OutputFile = out_before /\ error # "none")

C9_Witness ==
    /\ pc = "failed"
    /\ error = "OSError:truncated"
    /\ Len(ops) = 2
    /\ new_image.h > 0
    /\ wrote = 0
    /\ OutputFile = NoFile

(* C10: the paste regions (the first image, then one band for every later     *)
(* image, each target_width wide and subtitle_height high whatever the height *)
(* of its image) lie inside the canvas, do not overlap and together cover it, *)
(* so no pixel of the saved canvas keeps the white fill.                      *)
C10_InBox(b, r, c) == b.top <= r /\ r < b.bottom /\ b.left <= c /\ c < b.right

C10_RegionsTileCanvas ==
    pc = "done" =>
        /\ Len(ops) = N
        /\ \A k \in 1..N :
             /\ ops[k].paste.left = 0
             /\ ops[k].paste.right = new_image.w
             /\ ops[k].paste.top = RegionTop(k)
             /\ ops[k].paste.bottom = RegionBottom(k)
             /\ ops[k].paste.bottom <= new_image.h
             /\ k > 1 => ops[k].paste.bottom - ops[k].paste.top = subtitle_height
        /\ \A r \in 0..(new_image.h - 1), c \in 0..(new_image.w - 1) :
             /\ Cardinality({k \in 1..N : C10_InBox(ops[k].paste, r, c)}) = 1
             /\ new_image.rows[r][c] # White
        /\ OutputFile = CanvasFile(new_image)

C10_Witness ==
    /\ pc = "done"
    /\ N = 3
    /\ subtitle_height > 0
    /\ resized_images[2].h < subtitle_height
    /\ resized_images[3].h > subtitle_height

=============================================================================
